---- MODULE Spec2Model ----
(***************************************************************************)
(* Model of src/types-global/errors.ts: the BaseErrorCode enum, the        *)
(* McpError class (constructor and toResponse) and the zod ErrorSchema.    *)
(*                                                                         *)
(* JavaScript values are records of one shape,                             *)
(*   [kind, str, num, members]                                             *)
(* where kind is the zod "parsed type" of the value (undefined, null,      *)
(* string, number, array, object).  The members of an object are kept in   *)
(* the order in which the properties were created; the order in which      *)
(* JavaScript enumerates them is computed by OwnPropertyKeys.              *)
(***************************************************************************)
EXTENDS Integers, Sequences, FiniteSets, TLC

VARIABLES err, pristine, responses, arg, parsed

vars == <<err, pristine, responses, arg, parsed>>

(***************************************************************************)
(* Bounds of the model.                                                    *)
(***************************************************************************)
\* largest number of properties of a details mapping
MaxKeys == 2
\* largest number of toResponse calls recorded for one unchanged instance
MaxRenders == 2

(***************************************************************************)
(* JavaScript values.                                                      *)
(***************************************************************************)
Undefined == [kind |-> "undefined", str |-> "", num |-> 0, members |-> <<>>]
Null == [kind |-> "null", str |-> "", num |-> 0, members |-> <<>>]
Str(s) == [kind |-> "string", str |-> s, num |-> 0, members |-> <<>>]
Num(n) == [kind |-> "number", str |-> "", num |-> n, members |-> <<>>]
Obj(ms) == [kind |-> "object", str |-> "", num |-> 0, members |-> ms]
Arr(ms) == [kind |-> "array", str |-> "", num |-> 0, members |-> ms]
Prop(k, v) == [key |-> k, val |-> v]

\* the enum BaseErrorCode: the eleven string values
BaseErrorCode ==
  { "UNAUTHORIZED", "FORBIDDEN", "NOT_FOUND", "CONFLICT", "VALIDATION_ERROR",
    "RATE_LIMITED", "TIMEOUT", "SERVICE_UNAVAILABLE", "INTERNAL_ERROR",
    "UNKNOWN_ERROR", "CONFIGURATION_ERROR" }

(***************************************************************************)
(* Property enumeration of an ordinary object (OrdinaryOwnPropertyKeys):   *)
(* the keys that are canonical array indices come first, in ascending      *)
(* numeric order, then the other string keys in creation order.            *)
(***************************************************************************)
\* the numeric value of a key that is a canonical array index, -1 otherwise
\* ("01" is not canonical: it is an ordinary string key)
ArrayIndex(k) ==
  CASE k = "0" -> 0
    [] k = "1" -> 1
    [] k = "2" -> 2
    [] k = "3" -> 3
    [] OTHER -> -1

IsIndexKey(k) == ArrayIndex(k) >= 0

\* the keys of a member sequence, in creation order
CreationKeys(ms) == [i \in 1..Len(ms) |-> ms[i].key]

HasKey(ms, k) == \E i \in 1..Len(ms) : ms[i].key = k

\* value of property k (undefined when the object has no such property)
Get(ms, k) ==
  IF HasKey(ms, k)
    THEN (CHOOSE p \in {ms[i] : i \in 1..Len(ms)} : p.key = k).val
    ELSE Undefined

RECURSIVE SortIndices(_)
\* the given set of index keys as a sequence in ascending numeric order
SortIndices(ks) ==
  IF ks = {} THEN <<>>
  ELSE LET least == CHOOSE k \in ks : \A o \in ks : ArrayIndex(k) <= ArrayIndex(o)
       IN  <<least>> \o SortIndices(ks \ {least})

\* variant: every key in creation order
OwnPropertyKeysInsertion(ms) == CreationKeys(ms)

OwnPropertyKeys(ms) ==
  LET ks == CreationKeys(ms)
  IN  SortIndices({ks[i] : i \in {j \in 1..Len(ks) : IsIndexKey(ks[j])}})
        \o SelectSeq(ks, LAMBDA k : ~IsIndexKey(k))

\* the properties of an object in enumeration order
OwnEntries(ms) ==
  LET ks == OwnPropertyKeys(ms)
  IN  [i \in 1..Len(ks) |-> Prop(ks[i], Get(ms, ks[i]))]

(***************************************************************************)
(* JSON.stringify(value, null, 2).                                         *)
(***************************************************************************)
\* QuoteJSONString on the strings of the model: a double quote is escaped
JSONEscape(s) ==
  CASE s = "a\"b" -> "a\\\"b"
    [] OTHER -> s

QuoteJSONString(s) == "\"" \o JSONEscape(s) \o "\""

RECURSIVE JoinWith(_, _)
JoinWith(parts, sep) ==
  IF Len(parts) = 0 THEN ""
  ELSE IF Len(parts) = 1 THEN parts[1]
  ELSE parts[1] \o sep \o JoinWith(Tail(parts), sep)

RECURSIVE SerializeJSONProperty(_, _)
\* the text of value v at indentation ind; the gap is two spaces
SerializeJSONProperty(v, ind) ==
  LET indent == ind \o "  "
      entries == SelectSeq(OwnEntries(v.members), LAMBDA p : p.val.kind # "undefined")
      partialObj == [i \in 1..Len(entries) |->
                       QuoteJSONString(entries[i].key) \o ": "
                         \o SerializeJSONProperty(entries[i].val, indent)]
      partialArr == [i \in 1..Len(v.members) |->
                       IF v.members[i].val.kind = "undefined" THEN "null"
                       ELSE SerializeJSONProperty(v.members[i].val, indent)]
  IN  CASE v.kind = "null" -> "null"
        [] v.kind = "string" -> QuoteJSONString(v.str)
        [] v.kind = "number" -> ToString(v.num)
        [] v.kind = "object" ->
             IF Len(partialObj) = 0 THEN "{}"
             ELSE "{\n" \o indent \o JoinWith(partialObj, ",\n" \o indent)
                    \o "\n" \o ind \o "}"
        [] v.kind = "array" ->
             IF Len(partialArr) = 0 THEN "[]"
             ELSE "[\n" \o indent \o JoinWith(partialArr, ",\n" \o indent)
                    \o "\n" \o ind \o "]"

JSONstringify(v) == SerializeJSONProperty(v, "")

(***************************************************************************)
(* class McpError                                                          *)
(***************************************************************************)
\* variant: the details parameter is given the default value {}
McpErrorDefaultDetails(code, message, details) ==
  [code |-> code, message |-> message,
   details |-> IF details.kind = "undefined" THEN Obj(<<>>) ELSE details]

\* variant: the details parameter is not made a field of the instance
McpErrorNoDetails(code, message, details) ==
  [code |-> code, message |-> message, details |-> Undefined]

\* constructor(code, message, details?): the three fields of the instance;
\* details is stored as given (undefined when the argument is omitted)
McpError(code, message, details) ==
  [code |-> code, message |-> message, details |-> details]

\* truthiness of a value in a conditional: undefined and null are falsy,
\* every object (the empty one included) is truthy
ToBoolean(v) ==
  CASE v.kind \in {"undefined", "null"} -> FALSE
    [] v.kind = "string" -> v.str # ""
    [] v.kind = "number" -> v.num # 0
    [] OTHER -> TRUE

\* variant: the details block is left out for a mapping without keys
errorTextNonEmpty(e) ==
  "Error [" \o e.code \o "]: " \o e.message
    \o (IF ToBoolean(e.details) /\ Len(e.details.members) > 0
          THEN "\nDetails: " \o JSONstringify(e.details)
          ELSE "")

\* the template literal of toResponse
errorText(e) ==
  "Error [" \o e.code \o "]: " \o e.message
    \o (IF ToBoolean(e.details)
          THEN "\nDetails: " \o JSONstringify(e.details)
          ELSE "")

\* variant: the response is not marked as an error
toResponseNoFlag(e) ==
  [content |-> << [type |-> "text", text |-> errorText(e)] >>,
   isError |-> FALSE]

toResponse(e) ==
  [content |-> << [type |-> "text", text |-> errorText(e)] >>,
   isError |-> TRUE]

(***************************************************************************)
(* Inputs of the model.                                                    *)
(***************************************************************************)
Messages == {"missing widget", "bad field"}

DetailKeys == {"field", "retryAfterMs", "2", "1"}

DetailValues ==
  { Str("name"),
    Num(500),
    Obj(<< Prop("path", Str("a\"b")),
           Prop("list", Arr(<< Prop("0", Num(1)), Prop("1", Null) >>)) >>) }

\* the member sequences with distinct keys and at most n properties
MemberSeqs(n) ==
  { ms \in UNION { [1..l -> [key : DetailKeys, val : DetailValues]] : l \in 0..n } :
      \A i, j \in 1..Len(ms) : i # j => ms[i].key # ms[j].key }

\* the details arguments: omitted, or a mapping
DetailsArgs == {Undefined} \cup { Obj(ms) : ms \in MemberSeqs(MaxKeys) }

(***************************************************************************)
(* ErrorSchema: z.object({ code: z.nativeEnum(BaseErrorCode),              *)
(*                         message: z.string(),                            *)
(*                         details: z.record(z.unknown()).optional() })    *)
(* A parse returns the issues it found (each with the path of the field)   *)
(* and, when there are none, the parsed value.                             *)
(***************************************************************************)
Issue(path, code, v) == [path |-> path, code |-> code, received |-> v.kind]

ParseOK(v) == [issues |-> <<>>, value |-> v]
ParseFail(is) == [issues |-> is, value |-> Undefined]

\* variant: the code is checked to be a string only (z.string())
NativeEnumParseAnyString(v, path) ==
  IF v.kind # "string"
    THEN [issues |-> << Issue(path, "invalid_type", v) >>, value |-> Undefined]
    ELSE [issues |-> <<>>, value |-> v]

\* z.nativeEnum(BaseErrorCode): a string or number that is one of the values
NativeEnumParse(v, path) ==
  IF v.kind \notin {"string", "number"}
    THEN ParseFail(<< Issue(path, "invalid_type", v) >>)
  ELSE IF ~(v.kind = "string" /\ v.str \in BaseErrorCode)
    THEN ParseFail(<< Issue(path, "invalid_enum_value", v) >>)
  ELSE ParseOK(v)

\* z.string()
StringParse(v, path) ==
  IF v.kind # "string"
    THEN ParseFail(<< Issue(path, "invalid_type", v) >>)
    ELSE ParseOK(v)

\* z.record(z.unknown()): an object; the result is a new object that gets
\* the properties of the input in enumeration order, values as they are
RecordParse(v, path) ==
  IF v.kind # "object"
    THEN ParseFail(<< Issue(path, "invalid_type", v) >>)
    ELSE ParseOK(Obj(OwnEntries(v.members)))

\* variant: the record is not optional
OptionalRecordParseRequired(v, path) == RecordParse(v, path)

\* .optional(): undefined is accepted as it is
OptionalRecordParse(v, path) ==
  IF v.kind = "undefined" THEN ParseOK(Undefined) ELSE RecordParse(v, path)

\* the keys of the object schema, in the order of the shape
ShapeKeys == <<"code", "message", "details">>

FieldParse(k, v) ==
  CASE k = "code" -> NativeEnumParse(v, <<k>>)
    [] k = "message" -> StringParse(v, <<k>>)
    [] k = "details" -> OptionalRecordParse(v, <<k>>)

RECURSIVE Flatten(_)
Flatten(ss) == IF Len(ss) = 0 THEN <<>> ELSE ss[1] \o Flatten(Tail(ss))

\* variant: the parse stops at the first key that has an issue
ObjectParseFirstIssue(v) ==
  LET results == [i \in 1..Len(ShapeKeys) |->
                    FieldParse(ShapeKeys[i], Get(v.members, ShapeKeys[i]))]
      failing == {i \in 1..Len(ShapeKeys) : Len(results[i].issues) > 0}
      first == CHOOSE i \in failing : \A j \in failing : i <= j
      kept == SelectSeq(ShapeKeys,
                LAMBDA k : \/ HasKey(v.members, k)
                           \/ FieldParse(k, Get(v.members, k)).value.kind # "undefined")
      data == [i \in 1..Len(kept) |->
                 Prop(kept[i], FieldParse(kept[i], Get(v.members, kept[i])).value)]
  IN  IF v.kind # "object"
        THEN ParseFail(<< Issue(<<>>, "invalid_type", v) >>)
      ELSE IF failing # {} THEN ParseFail(results[first].issues)
      ELSE ParseOK(Obj(data))

\* variant: the keys outside the shape are kept (.passthrough())
ObjectParsePassthrough(v) ==
  LET results == [i \in 1..Len(ShapeKeys) |->
                    FieldParse(ShapeKeys[i], Get(v.members, ShapeKeys[i]))]
      issues == Flatten([i \in 1..Len(ShapeKeys) |-> results[i].issues])
      kept == SelectSeq(ShapeKeys,
                LAMBDA k : \/ HasKey(v.members, k)
                           \/ FieldParse(k, Get(v.members, k)).value.kind # "undefined")
      data == [i \in 1..Len(kept) |->
                 Prop(kept[i], FieldParse(kept[i], Get(v.members, kept[i])).value)]
      others == SelectSeq(v.members, LAMBDA p : p.key \notin {"code", "message", "details"})
  IN  IF v.kind # "object"
        THEN ParseFail(<< Issue(<<>>, "invalid_type", v) >>)
      ELSE IF Len(issues) > 0 THEN ParseFail(issues)
      ELSE ParseOK(Obj(data \o others))

\* z.object(...): the value must be an object; every key of the shape is
\* parsed and the issues of all of them are collected; keys outside the
\* shape are left out of the result (the default "strip" mode)
ObjectParse(v) ==
  LET results == [i \in 1..Len(ShapeKeys) |->
                    FieldParse(ShapeKeys[i], Get(v.members, ShapeKeys[i]))]
      issues == Flatten([i \in 1..Len(ShapeKeys) |-> results[i].issues])
      kept == SelectSeq(ShapeKeys,
                LAMBDA k : \/ HasKey(v.members, k)
                           \/ FieldParse(k, Get(v.members, k)).value.kind # "undefined")
      data == [i \in 1..Len(kept) |->
                 Prop(kept[i], FieldParse(kept[i], Get(v.members, kept[i])).value)]
  IN  IF v.kind # "object"
        THEN ParseFail(<< Issue(<<>>, "invalid_type", v) >>)
      ELSE IF Len(issues) > 0 THEN ParseFail(issues)
      ELSE ParseOK(Obj(data))

\* ErrorSchema.safeParse(v): success with the data, or the error's issues
safeParse(v) ==
  LET r == ObjectParse(v)
  IN  IF Len(r.issues) = 0
        THEN [success |-> TRUE, data |-> <<r.value>>, issues |-> <<>>]
        ELSE [success |-> FALSE, data |-> <<>>, issues |-> r.issues]

(***************************************************************************)
(* Operations on an instance.  err is the instance; pristine holds the     *)
(* constructor's arguments for as long as nothing has written to a field;  *)
(* responses are the results of the toResponse calls made since the        *)
(* instance last changed.                                                  *)
(***************************************************************************)
Init ==
  /\ \E c \in BaseErrorCode, m \in Messages, d \in DetailsArgs :
       /\ err = McpError(c, m, d)
       /\ pristine = << [code |-> c, message |-> m, details |-> d] >>
  /\ responses = <<>>
  /\ arg = <<>>
  /\ parsed = <<>>

\* variant: the call removes details from the instance once it is in the text
RenderDeleting ==
  /\ Len(responses) < MaxRenders
  /\ responses' = Append(responses, toResponse(err))
  /\ err' = [err EXCEPT !.details = Undefined]
  /\ UNCHANGED <<pristine, arg, parsed>>

\* err.toResponse()
Render ==
  /\ Len(responses) < MaxRenders
  /\ responses' = Append(responses, toResponse(err))
  /\ UNCHANGED <<err, pristine, arg, parsed>>

\* a write to a field of the instance: the fields are public and writable
Write(e) ==
  /\ e # err
  /\ err' = e
  /\ pristine' = <<>>
  /\ responses' = <<>>
  /\ arg' = <<>>
  /\ parsed' = <<>>

\* err.code = c
AssignCode(c) == Write([err EXCEPT !.code = c])

\* err.message = m
AssignMessage(m) == Write([err EXCEPT !.message = m])

\* err.details = undefined, err.details = {}
AssignDetails(d) == Write([err EXCEPT !.details = d])

\* the members after ms[k] = v: an existing property keeps its place, a new
\* one is created last
PutMember(ms, k, v) ==
  IF HasKey(ms, k)
    THEN [i \in 1..Len(ms) |-> IF ms[i].key = k THEN Prop(k, v) ELSE ms[i]]
    ELSE Append(ms, Prop(k, v))

\* err.details[k] = v, also through the reference the constructor was given
PutDetail(k, v) ==
  /\ err.details.kind = "object"
  /\ HasKey(err.details.members, k) \/ Len(err.details.members) < MaxKeys
  /\ Write([err EXCEPT !.details = Obj(PutMember(err.details.members, k, v))])

\* the object { code: err.code, message: err.message, details: err.details }
ErrorFields(e) ==
  Obj(<< Prop("code", Str(e.code)), Prop("message", Str(e.message)),
         Prop("details", e.details) >>)

\* ErrorSchema.safeParse({ code, message, details }) of the instance
ValidateFields ==
  /\ parsed = <<>>
  /\ arg' = << ErrorFields(err) >>
  /\ parsed' = << safeParse(ErrorFields(err)) >>
  /\ UNCHANGED <<err, pristine, responses>>

Next ==
  \/ Render
  \/ \E c \in BaseErrorCode : AssignCode(c)
  \/ \E m \in Messages : AssignMessage(m)
  \/ \E d \in {Undefined, Obj(<<>>)} : AssignDetails(d)
  \/ \E k \in DetailKeys, v \in DetailValues : PutDetail(k, v)
  \/ ValidateFields

Spec == Init /\ [][Next]_vars

(***************************************************************************)
(* The validator on arbitrary values.                                      *)
(***************************************************************************)
\* largest number of fields outside the schema's shape in an input
MaxExtra == 1

ExtraKeys == <<"stack", "name", "cause">>

CodeInputs ==
  { Str(c) : c \in BaseErrorCode } \cup {Undefined, Str("NOPE"), Num(42), Null}

MessageInputs == {Undefined, Str("deadline exceeded"), Str(""), Num(7)}

DetailsInputs ==
  { Undefined, Null, Str("x"), Arr(<<>>), Obj(<<>>),
    Obj(<< Prop("retryAfterMs", Num(500)) >>),
    Obj(<< Prop("b", Str("x")), Prop("2", Num(2)), Prop("1", Num(1)) >>) }

\* the object literal with the given fields; a field given as undefined is
\* absent from the object
ObjectOf(c, m, d, n) ==
  Obj(SelectSeq(<< Prop("code", c), Prop("message", m), Prop("details", d) >>,
                LAMBDA p : p.val.kind # "undefined")
        \o [i \in 1..n |-> Prop(ExtraKeys[i], Str("x"))])

ValidateInputs ==
  { Undefined, Null, Str("TIMEOUT"), Num(42),
    Arr(<< Prop("0", Str("TIMEOUT")) >>) }
    \cup { ObjectOf(c, m, d, n) :
             c \in CodeInputs, m \in MessageInputs, d \in DetailsInputs,
             n \in 0..MaxExtra }

InitValidate ==
  /\ err = McpError("UNKNOWN_ERROR", "bad field", Undefined)
  /\ pristine = <<>>
  /\ responses = <<>>
  /\ \E v \in ValidateInputs : arg = <<v>>
  /\ parsed = <<>>

\* ErrorSchema.safeParse(v) of a value that arrived from outside
Validate ==
  /\ parsed = <<>>
  /\ parsed' = << safeParse(arg[1]) >>
  /\ UNCHANGED <<err, pristine, responses, arg>>

NextValidate == Validate

SpecValidate == InitValidate /\ [][NextValidate]_vars

(***************************************************************************)
(* Properties of toResponse.                                               *)
(***************************************************************************)
\* the first line of the text
Header(e) == "Error [" \o e.code \o "]: " \o e.message

HasRendered == Len(responses) > 0

LastText == responses[Len(responses)].content[1].text

\* the instance of the example: VALIDATION_ERROR, "bad field", { field: v }
IsExample(v) ==
  err = [code |-> "VALIDATION_ERROR", message |-> "bad field",
         details |-> Obj(<< Prop("field", v) >>)]

\* C1 as stated: the details block is appended exactly when details is
\* present and has at least one key; with details absent or empty the text
\* is the first line alone.
C1_DetailsOnlyWhenNonEmpty ==
  HasRendered =>
    LastText = IF err.details.kind = "object" /\ Len(err.details.members) > 0
                 THEN Header(err) \o "\nDetails: " \o JSONstringify(err.details)
                 ELSE Header(err)

\* C1 amended: the details block is appended exactly when details is
\* present, the empty mapping included (its block is "Details: {}"); the
\* text is the first line alone only when details is absent.  The block is
\* the 2-space-indented JSON text of details.
C1_DetailsWhenPresent ==
  HasRendered =>
    /\ LastText = IF err.details.kind = "object"
                    THEN Header(err) \o "\nDetails: " \o JSONstringify(err.details)
                    ELSE Header(err)
    /\ err.details = Obj(<<>>) => LastText = Header(err) \o "\nDetails: {}"
    /\ IsExample(Str("name")) =>
         LastText = "Error [VALIDATION_ERROR]: bad field\nDetails: {\n  \"field\": \"name\"\n}"
    /\ IsExample(Obj(<< Prop("path", Str("a\"b")),
                        Prop("list", Arr(<< Prop("0", Num(1)), Prop("1", Null) >>)) >>)) =>
         LastText = "Error [VALIDATION_ERROR]: bad field\nDetails: {\n  \"field\": {\n"
                      \o "    \"path\": \"a\\\"b\",\n    \"list\": [\n      1,\n      null\n    ]\n  }\n}"

\* an instance whose details is the empty mapping has been rendered
C1_Witness == HasRendered /\ err.details = Obj(<<>>)

\* C2: for an instance constructed without details the response has exactly
\* one content item, of type "text", whose text is exactly
\* Error [<code>]: <message> of the constructor's code and message.
C2_NoDetailsText ==
  (HasRendered /\ pristine # <<>> /\ pristine[1].details.kind = "undefined") =>
    \A i \in 1..Len(responses) :
      /\ Len(responses[i].content) = 1
      /\ responses[i].content[1].type = "text"
      /\ responses[i].content[1].text
           = "Error [" \o pristine[1].code \o "]: " \o pristine[1].message
      /\ (pristine[1].code = "NOT_FOUND" /\ pristine[1].message = "missing widget") =>
           responses[i].content[1].text = "Error [NOT_FOUND]: missing widget"

C2_Witness ==
  /\ HasRendered
  /\ pristine = << [code |-> "NOT_FOUND", message |-> "missing widget",
                    details |-> Undefined] >>

\* C3: every response returned by toResponse has isError equal to true.
C3_IsErrorTrue ==
  \A i \in 1..Len(responses) :
    "isError" \in DOMAIN responses[i] /\ responses[i].isError = TRUE

C3_Witness == HasRendered /\ err.details.kind = "object" /\ err.code = "TIMEOUT"

Perms(n) == { f \in [1..n -> 1..n] : \A i, j \in 1..n : i # j => f[i] # f[j] }

\* the details block whose members are the given properties, one per line
\* and in the given order
Block(ps) ==
  "{\n"
    \o JoinWith([i \in 1..Len(ps) |->
                   "  " \o QuoteJSONString(ps[i].key) \o ": "
                     \o SerializeJSONProperty(ps[i].val, "  ")], ",\n")
    \o "\n}"

\* C7 as stated: the keys of the details block are in the order in which
\* they were inserted into the mapping.
C7_InsertionOrder ==
  (HasRendered /\ err.details.kind = "object" /\ Len(err.details.members) > 0) =>
    LastText = Header(err) \o "\nDetails: " \o Block(err.details.members)

\* C7 amended: the keys that are canonical array indices ("1", "2") come
\* first, in ascending numeric order; the other keys follow, in the order
\* in which they were inserted.
C7_IndexKeysFirst ==
  (HasRendered /\ err.details.kind = "object" /\ Len(err.details.members) > 0) =>
    LET ms == err.details.members
        n == Len(ms)
    IN  \E f \in Perms(n) :
          /\ \A i, j \in 1..n :
               i < j =>
                 /\ IsIndexKey(ms[f[j]].key) => IsIndexKey(ms[f[i]].key)
                 /\ (IsIndexKey(ms[f[i]].key) /\ IsIndexKey(ms[f[j]].key)) =>
                      ArrayIndex(ms[f[i]].key) < ArrayIndex(ms[f[j]].key)
                 /\ (~IsIndexKey(ms[f[i]].key) /\ ~IsIndexKey(ms[f[j]].key)) =>
                      f[i] < f[j]
          /\ LastText = Header(err) \o "\nDetails: "
                          \o Block([i \in 1..n |-> ms[f[i]]])

\* a mapping in which "2" was inserted before "1" has been rendered
C7_Witness ==
  /\ HasRendered
  /\ err.details.kind = "object"
  /\ CreationKeys(err.details.members) = <<"2", "1">>

\* C9: consecutive toResponse calls on an instance return identical
\* responses, and a toResponse call leaves code, message and details as
\* they were.
C9_RenderIdempotent ==
  /\ [](\A i, j \in 1..Len(responses) : responses[i] = responses[j])
  /\ [][Len(responses') > Len(responses) => err' = err]_vars

C9_Witness == Len(responses) >= 2 /\ err.details.kind = "object"

(***************************************************************************)
(* Properties of ErrorSchema.                                              *)
(***************************************************************************)
HasParsed == Len(parsed) > 0

Fields(v) == v.members

\* the four checks of the validator, on the input value
IsMapping(v) == v.kind = "object"

CodeConforms(v) ==
  /\ HasKey(Fields(v), "code")
  /\ Get(Fields(v), "code").kind = "string"
  /\ Get(Fields(v), "code").str \in BaseErrorCode

MessageConforms(v) ==
  HasKey(Fields(v), "message") /\ Get(Fields(v), "message").kind = "string"

DetailsConforms(v) ==
  HasKey(Fields(v), "details") => Get(Fields(v), "details").kind = "object"

\* C4: a value is accepted if and only if it is a mapping, its code is one
\* of the eleven ErrorCode strings, its message is a string and its details
\* is absent or a mapping.
C4_AcceptsIffFourChecks ==
  HasParsed =>
    /\ parsed[1].success <=>
         /\ IsMapping(arg[1])
         /\ CodeConforms(arg[1])
         /\ MessageConforms(arg[1])
         /\ DetailsConforms(arg[1])
    /\ arg[1] \in { ObjectOf(Str("TIMEOUT"), Str("deadline exceeded"), d, 0) :
                      d \in {Undefined, Obj(<< Prop("retryAfterMs", Num(500)) >>)} }
         => parsed[1].success
    /\ (IsMapping(arg[1]) /\ Get(Fields(arg[1]), "code") = Str("NOPE"))
         => ~parsed[1].success

\* an object that is well formed but for its code "NOPE" has been rejected
C4_Witness ==
  /\ HasParsed
  /\ arg[1] = ObjectOf(Str("NOPE"), Str("deadline exceeded"), Undefined, 0)
  /\ ~parsed[1].success

\* the fields of an object that do not conform
Offending(v) ==
  {k \in {"code"} : ~CodeConforms(v)}
    \cup {k \in {"message"} : ~MessageConforms(v)}
    \cup {k \in {"details"} : ~DetailsConforms(v)}

\* the fields the issues of a failure name
Reported(r) == { r.issues[i].path : i \in 1..Len(r.issues) }

\* C5: a rejected object's failure names every offending field and no
\* conforming field, and no validated value is returned with it.
C5_FailureNamesOffendingFields ==
  (HasParsed /\ IsMapping(arg[1]) /\ ~parsed[1].success) =>
    /\ Reported(parsed[1]) = { <<k>> : k \in Offending(arg[1]) }
    /\ Offending(arg[1]) # {}
    /\ parsed[1].data = <<>>

\* an object with a code outside the registry and no message was rejected
C5_Witness ==
  /\ HasParsed
  /\ arg[1] = ObjectOf(Str("NOPE"), Undefined, Undefined, 0)
  /\ Reported(parsed[1]) = { <<"code">>, <<"message">> }

\* two values are the same when they are of one kind and scalar value and
\* enumerate the same properties
SameValue(a, b) ==
  /\ a.kind = b.kind
  /\ a.str = b.str
  /\ a.num = b.num
  /\ OwnEntries(a.members) = OwnEntries(b.members)

\* C8: the object { code, message, details } of an instance is accepted,
\* and the value returned has the instance's code, message and details.
C8_RoundTrip ==
  (HasParsed /\ arg = << ErrorFields(err) >>) =>
    /\ parsed[1].success
    /\ Len(parsed[1].data) = 1
    /\ LET out == parsed[1].data[1].members
       IN  /\ Get(out, "code") = Str(err.code)
           /\ Get(out, "message") = Str(err.message)
           /\ SameValue(Get(out, "details"), err.details)

C8_Witness ==
  /\ HasParsed
  /\ arg = << ErrorFields(err) >>
  /\ err.details.kind = "object"
  /\ Len(err.details.members) = 2

C8_WitnessNoDetails ==
  HasParsed /\ arg = << ErrorFields(err) >> /\ err.details.kind = "undefined"

\* the fields of an object that are outside the schema's shape
Unknown(v) ==
  { k \in { Fields(v)[i].key : i \in 1..Len(Fields(v)) } :
      k \notin {"code", "message", "details"} }

\* C10: an object that conforms and has additional fields is accepted; the
\* value returned has the fields code, message and (when given) details,
\* with the input's values, and none of the additional fields; the input
\* object is left as it was.
C10_StripsUnknownFields ==
  /\ [](  ( /\ HasParsed
            /\ IsMapping(arg[1])
            /\ CodeConforms(arg[1])
            /\ MessageConforms(arg[1])
            /\ DetailsConforms(arg[1]) ) =>
          /\ parsed[1].success
          /\ LET out == parsed[1].data[1].members
             IN  /\ { out[i].key : i \in 1..Len(out) }
                      = {"code", "message"}
                          \cup {k \in {"details"} : HasKey(Fields(arg[1]), k)}
                 /\ \A k \in {"code", "message", "details"} :
                      SameValue(Get(out, k), Get(Fields(arg[1]), k)) )
  /\ [][arg' = arg]_vars

C10_Witness ==
  /\ HasParsed
  /\ parsed[1].success
  /\ Unknown(arg[1]) # {}
  /\ HasKey(Fields(arg[1]), "details")
====
